---- MODULE Spec2Model ----
(***************************************************************************)
(* Facade renderer: the seeded facade generator (FacadeCanvas.tsx, Facade  *)
(* and seededRandom), the facade/preset state (useFacadeState), the        *)
(* high-resolution export (renderHighRes) and the page's export handler    *)
(* (page.tsx, render8k), run on one JavaScript event loop.                 *)
(*                                                                         *)
(* 32-bit words are pairs <<hi, lo>> of 16-bit halves, and the double t of  *)
(* seededRandom is six 16-bit limbs, so that every intermediate value fits *)
(* TLC's integers.  Lengths are in thousandths of a scene unit             *)
(* (moduleHeight 1.0 is 1000).                                             *)
(***************************************************************************)
EXTENDS Integers, Sequences, FiniteSets, TLC

\* ------------------------------------------------------------------------
\* 32-bit arithmetic, as JavaScript's ToInt32 / ToUint32 operators do it
\* ------------------------------------------------------------------------

Half == 65536

RECURSIVE XorBits(_, _)
\* a ^ b, bit by bit
XorBits(a, b) ==
  IF a = 0 THEN b
  ELSE IF b = 0 THEN a
  ELSE 2 * XorBits(a \div 2, b \div 2) + ((a + b) % 2)

RECURSIVE OrBits(_, _)
\* a | b, bit by bit
OrBits(a, b) ==
  IF a = 0 THEN b
  ELSE IF b = 0 THEN a
  ELSE 2 * OrBits(a \div 2, b \div 2) + (IF a % 2 = 1 \/ b % 2 = 1 THEN 1 ELSE 0)

\* the two operators on 4-bit digits, tabulated once
Xor4 == [a \in 0..15 |-> [b \in 0..15 |-> XorBits(a, b)]]
Or4 == [a \in 0..15 |-> [b \in 0..15 |-> OrBits(a, b)]]

\* a ^ b on 16-bit halves, digit by digit
Xor16(a, b) ==
    Xor4[a \div 4096][b \div 4096] * 4096
  + Xor4[(a \div 256) % 16][(b \div 256) % 16] * 256
  + Xor4[(a \div 16) % 16][(b \div 16) % 16] * 16
  + Xor4[a % 16][b % 16]

\* a | b on 16-bit halves, digit by digit
Or16(a, b) ==
    Or4[a \div 4096][b \div 4096] * 4096
  + Or4[(a \div 256) % 16][(b \div 256) % 16] * 256
  + Or4[(a \div 16) % 16][(b \div 16) % 16] * 16
  + Or4[a % 16][b % 16]

\* x ^ y
U32Xor(x, y) == <<Xor16(x[1], y[1]), Xor16(x[2], y[2])>>

\* k | x for a constant k below 2^16
U32OrSmall(k, x) == <<x[1], Or16(k, x[2])>>

\* x >>> k for 0 < k < 16; p is 2^k
U32Shr(x, p) == <<x[1] \div p, (x[2] \div p) + (x[1] % p) * (Half \div p)>>

\* (x + y) mod 2^32
U32Add(x, y) ==
  LET lo == x[2] + y[2]
  IN  <<(x[1] + y[1] + lo \div Half) % Half, lo % Half>>

\* the 32-bit product of two 16-bit halves, by bytes
Mul16(a, b) ==
  LET a0 == a % 256
      a1 == a \div 256
      b0 == b % 256
      b1 == b \div 256
      m  == a1 * b0 + a0 * b1
      low == a0 * b0 + (m % 256) * 256
  IN  <<a1 * b1 + m \div 256 + low \div Half, low % Half>>

\* Math.imul(x, y): the low 32 bits of the product
Imul(x, y) ==
  LET ll == Mul16(x[2], y[2])
      cross == (Mul16(x[1], y[2])[2] + Mul16(x[2], y[1])[2]) % Half
  IN  <<(ll[1] + cross) % Half, ll[2]>>

\* ------------------------------------------------------------------------
\* Doubles that hold a non-negative integer, as the variable t of seededRandom
\* does: six 16-bit limbs, most significant first (the integer is below 2^96)
\* ------------------------------------------------------------------------

\* the double of a small non-negative integer
F64(n) == <<0, 0, 0, 0, n \div Half, n % Half>>

\* ToUint32(x): the low 32 bits of the integer x holds
ToUint32(x) == <<x[5], x[6]>>

\* limbs that have overflowed, with the carries moved up
F64Carry(s) ==
  LET c6 == s[6]
      c5 == s[5] + c6 \div Half
      c4 == s[4] + c5 \div Half
      c3 == s[3] + c4 \div Half
      c2 == s[2] + c3 \div Half
      c1 == s[1] + c2 \div Half
  IN  <<c1 % Half, c2 % Half, c3 % Half, c4 % Half, c5 % Half, c6 % Half>>

RECURSIVE BitLen(_)
\* the number of bits of n
BitLen(n) == IF n = 0 THEN 0 ELSE 1 + BitLen(n \div 2)

\* the number of bits of the integer s holds
F64BitLen(s) ==
  IF s[1] > 0 THEN 80 + BitLen(s[1])
  ELSE IF s[2] > 0 THEN 64 + BitLen(s[2])
  ELSE IF s[3] > 0 THEN 48 + BitLen(s[3])
  ELSE IF s[4] > 0 THEN 32 + BitLen(s[4])
  ELSE IF s[5] > 0 THEN 16 + BitLen(s[5])
  ELSE BitLen(s[6])

\* s with its low k bits rounded away, to nearest and ties to even (0 < k <= 32)
F64RoundBits(s, k) ==
  LET rem  == IF k <= 16 THEN <<0, s[6] % (2 ^ k)>> ELSE <<s[5] % (2 ^ (k - 16)), s[6]>>
      half == IF k <= 16 THEN <<0, 2 ^ (k - 1)>> ELSE <<2 ^ (k - 17), 0>>
      odd  == IF k < 16 THEN (s[6] \div (2 ^ k)) % 2 = 1
              ELSE IF k < 32 THEN (s[5] \div (2 ^ (k - 16))) % 2 = 1
              ELSE s[4] % 2 = 1
      down == <<s[1], s[2], s[3], s[4], s[5] - rem[1], s[6] - rem[2]>>
      up   == IF k <= 16 THEN F64Carry([down EXCEPT ![6] = @ + 2 ^ k])
              ELSE F64Carry([down EXCEPT ![5] = @ + 2 ^ (k - 16)])
      above == rem[1] > half[1] \/ (rem[1] = half[1] /\ rem[2] > half[2])
  IN  IF above \/ (rem = half /\ odd) THEN up ELSE down

\* the double nearest to the integer s: 53 significant bits are kept
F64Round(s) ==
  IF F64BitLen(s) <= 53 THEN s ELSE F64RoundBits(s, F64BitLen(s) - 53)

\* x + y in double arithmetic, for a 32-bit word y below 2^31.  From 2^84 on
\* doubles are 2^32 or more apart and the sum rounds back to x
F64Add(x, y) ==
  IF x[1] >= 16 THEN x
  ELSE F64Round(F64Carry(<<x[1], x[2], x[3], x[4], x[5] + y[1], x[6] + y[2]>>))

\* ------------------------------------------------------------------------
\* seededRandom
\* ------------------------------------------------------------------------

\* 0x6D2B79F5
Golden == <<27947, 31221>>

\* let t = seed + 0x6D2B79F5: t is a double, and is never wrapped to 32 bits
seededRandom(seed) == F64Add(F64(seed), Golden)

\* t += 0x6D2B79F5
RandStep(t) == F64Add(t, Golden)

\* the 32-bit integer a call returns divided by 4294967296, given t after the
\* step; the bit operators and Math.imul read t through ToInt32 / ToUint32
RandMix(t) ==
  LET w  == ToUint32(t)
      r1 == Imul(U32Xor(w, U32Shr(w, 32768)), U32OrSmall(1, w))
      r2 == U32Xor(r1, U32Add(r1, Imul(U32Xor(r1, U32Shr(r1, 128)), U32OrSmall(61, r1))))
  IN  U32Xor(r2, U32Shr(r2, 16384))

\* ------------------------------------------------------------------------
\* Facade: one generation pass
\* ------------------------------------------------------------------------

moduleHeight == 1000
frameThickness == 80
slatInset == 50

\* Density with the range starting at 1
DensityFromOne(u) == 1 + (6 * u[1] + (6 * u[2]) \div Half) \div Half

\* 6 + Math.floor(rand() * 6), rand() = u / 2^32
Density(u) == 6 + (6 * u[1] + (6 * u[2]) \div Half) \div Half

\* lerp(0.1, 0.6, rand()) in ten-thousandths, rounded down
Tilt(u) == 1000 + (5000 * u[1] + (5000 * u[2]) \div Half) \div Half

\* openChance > 0.7: u / 2^32 > 0.7, that is u >= 3006477108 = 45875 * 2^16 + 13108
Open(u) == u[1] > 45875 \/ (u[1] = 45875 /\ u[2] >= 13108)

\* the slat loop of a closed cell: ty = lerp(lo, hi, s / (density - 1)) as the
\* fraction num / den of thousandths, for s = 0 .. density - 1
Slats(density) ==
  LET lo == 0 - (moduleHeight - frameThickness * 2) \div 2 + slatInset
      hi == (moduleHeight - frameThickness * 2) \div 2 - slatInset
  IN  [k \in 1..density |->
         [num |-> ((density - 1) - (k - 1)) * lo + (k - 1) * hi, den |-> density - 1]]

\* one call of the closure seededRandom returned: g.t is its captured t, g.n the
\* number of calls made so far in this pass; u is the value returned (times 2^32)
\* and k the number of this call within the pass
Rand(g) ==
  LET t == RandStep(g.t)
  IN  [t |-> t, n |-> g.n + 1, u |-> RandMix(t), k |-> g.n]

\* The element of a one-element set.  { e(x) : x \in {v} } evaluates v once and
\* binds x to its value, where a LET would evaluate v again at every use of x.
The(S) == CHOOSE x \in S : TRUE

\* the cell built from the three calls d, ti, o of the closure
CellOf(d, ti, o, i, j) ==
  [i |-> i, j |-> j,
   density |-> Density(d.u),
   tilt |-> Tilt(ti.u),
   open |-> Open(o.u),
   slats |-> IF Open(o.u) THEN <<>> ELSE Slats(Density(d.u)),
   draws |-> <<d.k, ti.k, o.k>>]

\* Cell with the tilt drawn before the density
CellTiltFirst(s, i, j) ==
  The({ The({ The({ [g |-> [t |-> o.t, n |-> o.n],
                     cells |-> Append(s.cells, CellOf(d, ti, o, i, j))]
                    : o \in {Rand(d)} })
              : d \in {Rand(ti)} })
        : ti \in {Rand(s.g)} })

\* the body of the loops for cell (i, j): density, tilt and openChance drawn in
\* that order, then the slats of a cell that is not open.  s.g is the generator
\* and s.cells the cells built so far
Cell(s, i, j) ==
  The({ The({ The({ [g |-> [t |-> o.t, n |-> o.n],
                     cells |-> Append(s.cells, CellOf(d, ti, o, i, j))]
                    : o \in {Rand(ti)} })
              : ti \in {Rand(d)} })
        : d \in {Rand(s.g)} })

RECURSIVE RowLoop(_, _, _, _)
\* for (let j = ...; j < rows; j++)
RowLoop(s, i, j, rws) ==
  IF j >= rws THEN s
  ELSE The({ RowLoop(s2, i, j + 1, rws) : s2 \in {Cell(s, i, j)} })

RECURSIVE ColumnLoop(_, _, _, _)
\* for (let i = ...; i < columns; i++)
ColumnLoop(s, i, cols, rws) ==
  IF i >= cols THEN s
  ELSE The({ ColumnLoop(s2, i + 1, cols, rws) : s2 \in {RowLoop(s, i, 0, rws)} })

\* one render of Facade with the generator in state t0: the cells, and the
\* generator as the pass leaves it
Pass(t0, cols, rws) == ColumnLoop([g |-> [t |-> t0, n |-> 0], cells |-> <<>>], 0, cols, rws)

\* useMemo(() => seededRandom(seed), [seed]): a render of Facade keeps the
\* generator of the render before it while the seed is the same, and makes a new
\* one when the seed changed.  memo.seed is the seed the generator was made
\* from and memo.passes the number of renders that have drawn from it
RenderFacade(memo, sd) ==
  [seed |-> sd, passes |-> IF memo.seed = sd THEN memo.passes + 1 ELSE 1]

RECURSIVE GeneratorBefore(_, _, _, _)
\* t of the generator made from seed sd when its p-th render starts: as
\* seededRandom made it, or as the render before left it
GeneratorBefore(sd, p, cols, rws) ==
  IF p <= 1 THEN seededRandom(sd)
  ELSE Pass(GeneratorBefore(sd, p - 1, cols, rws), cols, rws).g.t

\* the cells the last render of Facade built
CellsOf(memo, cols, rws) ==
  Pass(GeneratorBefore(memo.seed, memo.passes, cols, rws), cols, rws).cells

\* ------------------------------------------------------------------------
\* State
\* ------------------------------------------------------------------------

VARIABLES
  mounted,         \* the canvas has mounted: ref.current is the handle
  columns, rows, seed, preset,   \* useFacadeState
  rand,            \* the generator useMemo holds: its seed, and the renders that used it
  size, dpr,       \* the canvas state: three.size and the device pixel ratio
  gl,              \* the renderer: width, height, pixelRatio
  frame,           \* the surface the frame loop last rendered into
  pc,              \* where the running renderHighRes call is
  prevSize, prevPixelRatio, dataURL,   \* its locals
  preCall,         \* gl as it was when renderHighRes was called
  exportRenders,   \* gl.render calls made by the call
  result,          \* how the promise of the call settled
  pagePc,          \* where render8k is: idle, calling, yielded (a render of Page is due), awaiting
  busy, message,   \* the page's state
  downloads,       \* the images link.click() downloaded
  timers,          \* pending setTimeout(() => setMessage(""), 3000)
  exports,         \* renderHighRes calls so far
  calls,           \* randomize calls so far
  beforePreset     \* the facade as setPreset found it, if nothing rendered Facade since

facadeVars == <<columns, rows, seed, preset, rand, calls, beforePreset>>
surfaceVars == <<size, dpr, gl>>
exportVars == <<pc, prevSize, prevPixelRatio, dataURL, preCall, exportRenders, result, exports>>
pageVars == <<pagePc, busy, message, downloads, timers>>
vars == <<mounted, facadeVars, surfaceVars, frame, exportVars, pageVars>>

\* ------------------------------------------------------------------------
\* Bounds and program constants
\* ------------------------------------------------------------------------

MaxRandomize == 2
MaxPasses == 2
MaxExports == 2
MaxSeedCalls == 10000

InitColumns == 10
InitRows == 6
InitSeed == 1
SeedModulus == 10000
ExportWidth == 7680
ExportHeight == 4320

Presets == {"daylight", "golden", "overcast"}
Sizes == {[width |-> 800, height |-> 600], [width |-> 1280, height |-> 720]}
PixelRatios == {1, 2}

\* values of variables that hold nothing yet
NoSurface == [width |-> 0, height |-> 0, pixelRatio |-> 0]
NoSize == [width |-> 0, height |-> 0]
NoImage == [width |-> 0, height |-> 0]
NoResult == [status |-> "none", image |-> NoImage]
NoRand == [seed |-> -1, passes |-> 0]
NoPresetCall == [called |-> FALSE, seed |-> 0, columns |-> 0, rows |-> 0, rand |-> NoRand]

MsgRendering == "Rendering 8K? this can take a while"
MsgExported == "8K render exported"
MsgFailed == "Render failed"

\* ------------------------------------------------------------------------
\* Init: the page is shown, the canvas has not mounted yet
\* ------------------------------------------------------------------------

Init ==
  /\ mounted = FALSE
  /\ columns = InitColumns /\ rows = InitRows /\ seed = InitSeed
  /\ preset = "daylight"
  /\ rand = NoRand /\ calls = 0 /\ beforePreset = NoPresetCall
  /\ size \in Sizes /\ dpr \in PixelRatios
  /\ gl = [width |-> size.width, height |-> size.height, pixelRatio |-> dpr]
  /\ frame = NoSurface
  /\ pc = "idle" /\ prevSize = NoSize /\ prevPixelRatio = 0 /\ dataURL = NoImage
  /\ preCall = NoSurface
  /\ exportRenders = 0 /\ result = NoResult /\ exports = 0
  /\ pagePc = "idle" /\ busy = FALSE /\ message = "" /\ downloads = <<>> /\ timers = 0

\* the cells on display: those the last render of Facade built
cells == IF mounted THEN CellsOf(rand, columns, rows) ELSE <<>>

\* the event loop takes a new task only when no task is running and no
\* continuation is queued
LoopIdle == pc = "idle" /\ pagePc = "idle"

\* ------------------------------------------------------------------------
\* The renderer (three.js WebGLRenderer, as renderHighRes uses it)
\* ------------------------------------------------------------------------

\* gl.setPixelRatio(value)
SetPixelRatio(g, value) == [g EXCEPT !.pixelRatio = value]

\* gl.setSize(width, height, false)
SetSize(g, width, height) == [g EXCEPT !.width = width, !.height = height]

\* the size of gl.domElement's drawing buffer, which toDataURL encodes
DrawingBuffer(g) == [width |-> g.width * g.pixelRatio, height |-> g.height * g.pixelRatio]

\* ------------------------------------------------------------------------
\* The canvas: mount, frame loop, randomize, setPreset
\* ------------------------------------------------------------------------

\* the canvas mounts: Facade renders for the first time, the handle is set
MountCanvas ==
  /\ ~mounted /\ LoopIdle
  /\ mounted' = TRUE
  /\ rand' = RenderFacade(rand, seed)
  /\ UNCHANGED <<columns, rows, seed, preset, calls, beforePreset, surfaceVars, frame,
                 exportVars, pageVars>>

\* one tick of the frame loop (useFrame): the scene is rendered into gl as it is
FrameTick ==
  /\ mounted /\ LoopIdle
  /\ frame' = gl
  /\ UNCHANGED <<mounted, facadeVars, surfaceVars, exportVars, pageVars>>

\* NextSeed without the modulus
NextSeedUnbounded(s) == s + 1

\* the seed randomize() sets
NextSeed(s) == (s + 1) % SeedModulus

\* randomize(): setSeed, and the render of Facade the new seed causes
Randomize(bound) ==
  /\ mounted /\ LoopIdle
  /\ calls < bound
  /\ calls' = calls + 1
  /\ seed' = NextSeed(seed)
  /\ rand' = RenderFacade(rand, seed')
  /\ beforePreset' = NoPresetCall
  /\ UNCHANGED <<mounted, columns, rows, preset, surfaceVars, frame, exportVars, pageVars>>

\* setPreset(p): a preset that differs renders FacadeCanvasInner again, and with
\* it every consumer of the context, Facade included; the same preset renders nothing
SetPreset(p) ==
  /\ mounted /\ LoopIdle
  /\ preset' = p
  /\ beforePreset' = [called |-> TRUE, seed |-> seed, columns |-> columns, rows |-> rows,
                       rand |-> rand]
  /\ IF p = preset
       THEN UNCHANGED rand
       ELSE /\ rand.passes < MaxPasses
            /\ rand' = RenderFacade(rand, seed)
  /\ UNCHANGED <<mounted, columns, rows, seed, calls, surfaceVars, frame, exportVars, pageVars>>

\* ------------------------------------------------------------------------
\* render8k and renderHighRes
\* ------------------------------------------------------------------------

\* Page renders again after a change of its state (busy, message): it makes a
\* new <FacadeCanvas> element, so FacadeCanvas, its Canvas and FacadeCanvasInner
\* render again; the context value of FacadeCanvasInner is a new object at
\* every render, so Facade renders again and draws from the generator it kept.
\* A set that changes nothing renders nothing
PageRenders(changed) ==
  IF changed
    THEN rand' = RenderFacade(rand, seed) /\ beforePreset' = NoPresetCall
    ELSE UNCHANGED <<rand, beforePreset>>

\* a click on Render 8K before the canvas mounted: if (!ref.current) return
ClickBeforeMount ==
  /\ ~mounted /\ LoopIdle /\ ~busy
  /\ UNCHANGED vars

\* a click on Render 8K: render8k up to the call of renderHighRes.  setBusy(true)
\* and setMessage(...) give the state its next values and queue a render of
\* Page; nothing renders before render8k yields (RenderAfterClick)
ClickRender8k ==
  /\ mounted /\ LoopIdle /\ ~busy
  /\ exports < MaxExports
  /\ busy' = TRUE
  /\ message' = MsgRendering
  /\ pagePc' = "calling"
  /\ pc' = "entered"
  /\ exports' = exports + 1
  /\ preCall' = gl
  /\ exportRenders' = 0
  /\ result' = NoResult
  /\ UNCHANGED <<mounted, facadeVars, surfaceVars, frame, prevSize, prevPixelRatio, dataURL,
                 downloads, timers>>

exportLocals == <<prevSize, prevPixelRatio, dataURL>>

\* const prevSize = {...three.size}; const prevPixelRatio = gl.getPixelRatio()
SaveState ==
  /\ pc = "entered"
  /\ prevSize' = [width |-> size.width, height |-> size.height]
  /\ prevPixelRatio' = gl.pixelRatio
  /\ pc' = "saved"
  /\ UNCHANGED <<mounted, facadeVars, surfaceVars, frame, dataURL, preCall, exportRenders,
                 result, exports, pageVars>>

\* ExportPixelRatio with the ratio left as it was
ExportPixelRatioKept(prev) == prev

\* the pixel ratio the export renders at
ExportPixelRatio(prev) == 1

\* gl.setPixelRatio(1)
SetExportPixelRatio ==
  /\ pc = "saved"
  /\ gl' = SetPixelRatio(gl, ExportPixelRatio(prevPixelRatio))
  /\ pc' = "ratio"
  /\ UNCHANGED <<mounted, facadeVars, size, dpr, frame, exportLocals, preCall, exportRenders,
                 result, exports, pageVars>>

\* gl.setSize(width, height, false)
SetExportSize ==
  /\ pc = "ratio"
  /\ gl' = SetSize(gl, ExportWidth, ExportHeight)
  /\ pc' = "resized"
  /\ UNCHANGED <<mounted, facadeVars, size, dpr, frame, exportLocals, preCall, exportRenders,
                 result, exports, pageVars>>

\* gl.render(scene, camera)
RenderExport ==
  /\ pc = "resized"
  /\ exportRenders' = exportRenders + 1
  /\ pc' = "rendered"
  /\ UNCHANGED <<mounted, facadeVars, surfaceVars, frame, exportLocals, preCall,
                 result, exports, pageVars>>

\* const dataURL = gl.domElement.toDataURL('image/png')
ToDataURL ==
  /\ pc = "rendered"
  /\ dataURL' = DrawingBuffer(gl)
  /\ pc' = "captured"
  /\ UNCHANGED <<mounted, facadeVars, surfaceVars, frame, prevSize, prevPixelRatio, preCall,
                 exportRenders, result, exports, pageVars>>

\* gl.setSize(prevSize.width, prevSize.height, false)
RestoreSize ==
  /\ pc = "captured"
  /\ gl' = SetSize(gl, prevSize.width, prevSize.height)
  /\ pc' = "restored"
  /\ UNCHANGED <<mounted, facadeVars, size, dpr, frame, exportLocals, preCall, exportRenders,
                 result, exports, pageVars>>

\* gl.setPixelRatio(prevPixelRatio); return dataURL: the promise is fulfilled and
\* render8k yields at its await
RestorePixelRatio ==
  /\ pc = "restored"
  /\ gl' = SetPixelRatio(gl, prevPixelRatio)
  /\ result' = [status |-> "fulfilled", image |-> dataURL]
  /\ pc' = "idle"
  /\ pagePc' = "yielded"
  /\ prevSize' = NoSize /\ prevPixelRatio' = 0 /\ dataURL' = NoImage
  /\ UNCHANGED <<mounted, facadeVars, size, dpr, frame, preCall, exportRenders, exports,
                 busy, message, downloads, timers>>

\* a statement of renderHighRes throws: nothing after it runs, the promise is
\* rejected and render8k yields at its await
Throws(at) ==
  /\ pc = at
  /\ result' = [status |-> "rejected", image |-> NoImage]
  /\ pc' = "idle"
  /\ pagePc' = "yielded"
  /\ prevSize' = NoSize /\ prevPixelRatio' = 0 /\ dataURL' = NoImage
  /\ UNCHANGED <<mounted, facadeVars, surfaceVars, frame, preCall, exportRenders, exports,
                 busy, message, downloads, timers>>

\* gl.setSize(width, height, false) throws
SetSizeThrows == Throws("ratio")

\* gl.render(scene, camera) throws
RenderThrows == Throws("resized")

\* toDataURL throws
ToDataURLThrows == Throws("rendered")

\* render8k has yielded: the render of Page that setBusy(true) and setMessage(...)
\* queued is taken now, after the whole body of renderHighRes and before the
\* continuation of render8k
RenderAfterClick ==
  /\ pagePc = "yielded"
  /\ pagePc' = "awaiting"
  /\ PageRenders(TRUE)
  /\ UNCHANGED <<mounted, columns, rows, seed, preset, calls, surfaceVars, frame,
                 exportVars, busy, message, downloads, timers>>

\* BusyAfter with setBusy(false) at the end of the try block only
BusyAfterTryOnly(ok) == ~ok

\* finally { setBusy(false) ... }: the busy flag after the export settled
BusyAfter(ok) == FALSE

\* the rest of the try block, then finally: the download, the message and the
\* busy flag, and Page renders again
ResumeFulfilled ==
  /\ pagePc = "awaiting" /\ result.status = "fulfilled"
  /\ downloads' = Append(downloads, result.image)
  /\ message' = MsgExported
  /\ busy' = BusyAfter(TRUE)
  /\ timers' = timers + 1
  /\ pagePc' = "idle"
  /\ result' = NoResult
  /\ PageRenders(TRUE)
  /\ UNCHANGED <<mounted, columns, rows, seed, preset, calls, surfaceVars, frame, pc,
                 exportLocals, preCall, exportRenders, exports>>

\* the catch block, then finally; Page renders again
ResumeRejected ==
  /\ pagePc = "awaiting" /\ result.status = "rejected"
  /\ message' = MsgFailed
  /\ busy' = BusyAfter(FALSE)
  /\ timers' = timers + 1
  /\ pagePc' = "idle"
  /\ result' = NoResult
  /\ PageRenders(TRUE)
  /\ UNCHANGED <<mounted, columns, rows, seed, preset, calls, surfaceVars, frame, pc,
                 exportLocals, preCall, exportRenders, exports, downloads>>

\* setTimeout(() => setMessage(""), 3000) fires; Page renders again when the
\* message was not empty already
TimerFires ==
  /\ LoopIdle /\ timers > 0
  /\ message' = ""
  /\ timers' = timers - 1
  /\ PageRenders(message /= "")
  /\ UNCHANGED <<mounted, columns, rows, seed, preset, calls, surfaceVars, frame,
                 exportVars, pagePc, busy, downloads>>

\* ------------------------------------------------------------------------
\* Specifications
\* ------------------------------------------------------------------------

Next ==
  \/ MountCanvas
  \/ FrameTick
  \/ Randomize(MaxRandomize)
  \/ \E p \in Presets : SetPreset(p)
  \/ ClickBeforeMount
  \/ ClickRender8k
  \/ SaveState
  \/ SetExportPixelRatio
  \/ SetExportSize
  \/ RenderExport
  \/ ToDataURL
  \/ RestoreSize
  \/ RestorePixelRatio
  \/ SetSizeThrows
  \/ RenderThrows
  \/ ToDataURLThrows
  \/ RenderAfterClick
  \/ ResumeFulfilled
  \/ ResumeRejected
  \/ TimerFires

Spec == Init /\ [][Next]_vars

\* the facade alone: mount, frame loop, randomize, setPreset
FacadeNext ==
  \/ MountCanvas
  \/ FrameTick
  \/ Randomize(MaxRandomize)
  \/ \E p \in Presets : SetPreset(p)

FacadeSpec == Init /\ [][FacadeNext]_vars

\* the seed alone: mount, then randomize again and again
SeedNext ==
  \/ MountCanvas
  \/ Randomize(MaxSeedCalls)

SeedSpec == Init /\ [][SeedNext]_vars

\* ------------------------------------------------------------------------
\* Properties
\* ------------------------------------------------------------------------

ExportSurface == [width |-> ExportWidth, height |-> ExportHeight, pixelRatio |-> 1]
ExportImage == [width |-> ExportWidth, height |-> ExportHeight]
InteractiveSurface == [width |-> size.width, height |-> size.height, pixelRatio |-> dpr]

\* C1: when a renderHighRes call has returned or thrown, the render surface
\* (width, height, pixel ratio) is what it was immediately before the call.
C1_SurfaceRestoredOnEveryExit ==
  pagePc \in {"yielded", "awaiting"} => gl = preCall

\* C3: every render of the frame loop finds the surface as the canvas set it:
\* none runs on a surface an export resized and has not restored.
C3_FrameLoopNeverSeesExportSurface ==
  frame /= NoSurface => frame = InteractiveSurface

\* C4: the cells on display are those a fresh derivation from (columns, rows,
\* seed) yields, at every render of Facade.
C4_CellsAreFunctionOfSeed ==
  mounted => cells = Pass(seededRandom(seed), columns, rows).cells

\* C5: a setPreset call leaves seed, columns, rows and the cells on display
\* as they were.
C5_SetPresetKeepsFacade ==
  beforePreset.called =>
    /\ seed = beforePreset.seed
    /\ columns = beforePreset.columns
    /\ rows = beforePreset.rows
    /\ cells = CellsOf(beforePreset.rand, beforePreset.columns, beforePreset.rows)

\* C6: each randomize call steps the seed by 1 modulo 10000: the seed stays in
\* 0..9999, and from seed 1 it is 1 again after exactly 10000 calls, not before.
C6_SeedCycle ==
  /\ seed \in 0..9999
  /\ seed = (1 + calls) % 10000
  /\ (calls \in 1..9999 => seed /= 1)
  /\ (calls = 10000 => seed = 1)

C6_Witness == calls = 10000 /\ seed = 1 /\ mounted

\* C7: an export saves the state, sets pixel ratio 1, resizes to W x H, renders
\* once, captures, restores, in that order: the one render and the capture
\* happen on the W x H surface at pixel ratio 1, and the image is W x H.
C7_ExportOrderAndShape ==
  /\ pc = "saved" => (gl = preCall /\ prevPixelRatio = preCall.pixelRatio /\ exportRenders = 0)
  /\ pc = "ratio" => (gl = [preCall EXCEPT !.pixelRatio = 1] /\ exportRenders = 0)
  /\ pc = "resized" => (gl = ExportSurface /\ exportRenders = 0)
  /\ pc = "rendered" => (gl = ExportSurface /\ exportRenders = 1)
  /\ pc = "captured" => (gl = ExportSurface /\ exportRenders = 1 /\ dataURL = ExportImage)
  /\ pc = "restored" => (exportRenders = 1 /\ dataURL = ExportImage /\ gl.pixelRatio = 1
                         /\ gl.width = prevSize.width /\ gl.height = prevSize.height)
  /\ (pagePc \in {"yielded", "awaiting"} /\ result.status = "fulfilled")
       => (result.image = ExportImage /\ exportRenders = 1)

C7_Witness ==
  /\ pagePc = "awaiting" /\ result.status = "fulfilled" /\ result.image = ExportImage
  /\ preCall.pixelRatio = 2 /\ exportRenders = 1

\* C8: when the export failed, render8k's continuation downloads nothing, sets
\* the failure message and clears the busy flag; and whenever render8k has
\* settled the busy flag is false.
C8_FailureSettles ==
  [][/\ (pagePc = "awaiting" /\ result.status = "rejected")
          => (pagePc' = "idle" /\ message' = MsgFailed /\ busy' = FALSE
              /\ downloads' = downloads)
     /\ pagePc' = "idle" => busy' = FALSE]_vars

C8_Witness ==
  /\ pagePc = "idle" /\ pc = "idle" /\ exports = 1
  /\ message = MsgFailed /\ ~busy /\ downloads = <<>>

\* a slat offset num / den lies within (moduleHeight - 2 frameThickness) / 2 of 0
SlatWithinOpening(sl) ==
  /\ sl.den > 0
  /\ 2 * sl.num <= (1000 - 2 * 80) * sl.den
  /\ 2 * sl.num >= (0 - (1000 - 2 * 80)) * sl.den

\* C9: every density drawn is in 6..11 (6 from the least draw, 11 from the
\* greatest), so the divisor density - 1 is not zero; a closed cell has exactly
\* density slats, each within the opening's vertical extent,
\* (moduleHeight - 2 frameThickness) / 2 on either side of the centre.
C9_SlatsWithinOpening ==
  /\ Density(<<0, 0>>) = 6 /\ Density(<<65535, 65535>>) = 11
  /\ \A d \in 6..11 :
       /\ Len(Slats(d)) = d
       /\ \A s \in 1..d : Slats(d)[s].den = d - 1 /\ SlatWithinOpening(Slats(d)[s])
  /\ \A cs \in {cells} : \A k \in 1..Len(cs) :
       /\ cs[k].density \in 6..11
       /\ cs[k].density - 1 /= 0
       /\ cs[k].open => cs[k].slats = <<>>
       /\ ~cs[k].open =>
            /\ Len(cs[k].slats) = cs[k].density
            /\ \A s \in 1..Len(cs[k].slats) : SlatWithinOpening(cs[k].slats[s])

C9_Witness ==
  /\ mounted
  /\ \E cs \in {cells} :
       /\ \E k \in 1..Len(cs) : ~cs[k].open /\ cs[k].density = 6
       /\ \E k \in 1..Len(cs) : ~cs[k].open /\ cs[k].density = 11

\* t + n * 0x6D2B79F5 as an integer, for n below 2^16
PlusGolden(t, n) ==
  F64Carry(<<t[1], t[2], t[3], t[4], t[5] + n * Golden[1], t[6] + n * Golden[2]>>)

RECURSIVE Advance(_, _)
\* t after n more calls of the closure.  While the sums stay below 2^53 every
\* addition is exact and the n steps add up to t + n * 0x6D2B79F5; beyond that
\* each step rounds, and the steps are taken one by one
Advance(t, n) ==
  IF n = 0 THEN t
  ELSE IF n < Half /\ F64BitLen(PlusGolden(t, n)) <= 53 THEN PlusGolden(t, n)
  ELSE IF n = 1 THEN RandStep(t)
  ELSE The({ Advance(h, n - n \div 2) : h \in {Advance(t, n \div 2)} })

\* the value of call number m (from 0) of a pass that starts with the generator at t0
DrawOfPass(t0, m) == RandMix(Advance(t0, m + 1))

\* C10: in a pass, cell (i, j) is the (i * rows + j)-th cell and takes its
\* density, tilt and open/closed decision from calls 3 (i rows + j) + 0, 1, 2
\* of the pass, whether it is open or closed.
C10_ThreeDrawsPerCell ==
  mounted =>
    \A cs \in {cells} : \A t0 \in {GeneratorBefore(rand.seed, rand.passes, columns, rows)} :
      /\ Len(cs) = columns * rows
      /\ \A i \in 0..(columns - 1) : \A j \in 0..(rows - 1) :
           \A m \in {i * rows + j} :
             /\ cs[m + 1].i = i /\ cs[m + 1].j = j
             /\ cs[m + 1].draws = <<3 * m, 3 * m + 1, 3 * m + 2>>
             /\ cs[m + 1].density = Density(DrawOfPass(t0, 3 * m))
             /\ cs[m + 1].tilt = Tilt(DrawOfPass(t0, 3 * m + 1))
             /\ cs[m + 1].open = Open(DrawOfPass(t0, 3 * m + 2))

C10_Witness ==
  /\ mounted /\ rand.passes = 2
  /\ \E cs \in {cells} : \E k \in 2..(Len(cs) - 1) : cs[k].open /\ ~cs[k + 1].open

====
